---- MODULE Spec2Model ----
(***************************************************************************)
(* Model of the custom (plugin) protocol record of the deepflow agent:     *)
(*   - CustomInfo::try_from, the wire-format decoder (agent/src/plugin),   *)
(*   - CustomInfo::merge_log, the request/response merge,                  *)
(*   - From<CustomInfo> for L7ProtocolSendLog, the output adapter,         *)
(*   - TapType <-> u16 conversions (src/common/enums.rs).                  *)
(* Bytes are integers 0..255, a buffer is a sequence of bytes, a string is *)
(* the sequence of its UTF-8 bytes, Option<T> is a sequence of length 0    *)
(* (None) or 1 (Some).  A u32 is kept as two 16-bit halves [hi, lo] so     *)
(* that all 32 bits are represented exactly.  Offsets are 0-based as in    *)
(* the source; buf[off] of the source is buf[off + 1] here.                *)
(***************************************************************************)
EXTENDS Integers, Sequences, FiniteSets

VARIABLES buf, dir, pc, off, info, ret, touched, seen, kvStart,
          base, hist, mret, log, tapArg, tapRes

vars == <<buf, dir, pc, off, info, ret, touched, seen, kvStart,
          base, hist, mret, log, tapArg, tapRes>>

decodeVars == <<buf, dir, pc, off, info, ret, touched, seen, kvStart>>
mergeVars == <<base, hist, mret, log>>
tapVars == <<tapArg, tapRes>>

(***************************************************************************)
(* Bounds of the model.                                                    *)
(***************************************************************************)
\* number of (key, value) pairs an input buffer's attribute section carries
MaxPairs == 2
\* number of merge_log calls made on one decoded record
MaxMerges == 2

(***************************************************************************)
(* Option, strings, integers.                                              *)
(***************************************************************************)
None == <<>>
Some(x) == <<x>>
IsSome(o) == Len(o) = 1
IsNone(o) == Len(o) = 0

\* i32::MAX as u32, as the pair of 16-bit halves
I32MaxHi == 32767

\* read_u32_be: big-endian u32 at 0-based offset o
ReadU32Be(b, o) ==
    [hi |-> b[o + 1] * 256 + b[o + 2], lo |-> b[o + 3] * 256 + b[o + 4]]

\* read_u16_be
ReadU16Be(b, o) == b[o + 1] * 256 + b[o + 2]

\* x & (i32::MAX as u32)
MaskI32Max(w) == [hi |-> w.hi % (I32MaxHi + 1), lo |-> w.lo]

\* (x as i32): two's complement reinterpretation, as a signed integer
AsI32(w) ==
    IF w.hi > I32MaxHi THEN (w.hi - 65536) * 65536 + w.lo
    ELSE w.hi * 65536 + w.lo

(***************************************************************************)
(* read_wasm_str: a 2-byte big-endian length prefix and that many bytes;   *)
(* absent when either does not fit.  The cursor after a failed read is     *)
(* unspecified: FailOffs is the set of positions it may be left at.        *)
(***************************************************************************)
StrFits(b, o) ==
    /\ o + 2 <= Len(b)
    /\ o + 2 + ReadU16Be(b, o) <= Len(b)

FailOffs(b, o) == {o} \cup (IF o + 2 <= Len(b) THEN {o + 2} ELSE {})

read_wasm_str(b, o) ==
    IF StrFits(b, o)
    THEN [ok |-> TRUE,
          s |-> SubSeq(b, o + 3, o + 2 + ReadU16Be(b, o)),
          off |-> o + 2 + ReadU16Be(b, o)]
    ELSE [ok |-> FALSE, s |-> <<>>, off |-> o]

\* the bytes a read at o looks at
StrTouched(b, o) ==
    IF o + 2 > Len(b) THEN {}
    ELSE IF StrFits(b, o) THEN o .. (o + 1 + ReadU16Be(b, o))
    ELSE {o, o + 1}

\* n successive reads chained with and_then: the strings read so far, whether
\* all n were read, the cursor after the last successful read.  strs and t are
\* the strings and the positions read by the reads made before o.  (The
\* singleton sets bind the cursor, strings and positions of the next read to
\* their values, so that each read is evaluated once.)
RECURSIVE ReadStrsFrom(_, _, _, _, _)
ReadStrsFrom(b, o, n, strs, t) ==
    IF n = 0 THEN [ok |-> TRUE, strs |-> strs, off |-> o, touched |-> t]
    ELSE IF ~StrFits(b, o)
    THEN [ok |-> FALSE, strs |-> strs, off |-> o, touched |-> t \cup StrTouched(b, o)]
    ELSE CHOOSE res \in
            {ReadStrsFrom(b, no, n - 1, ns, nt) :
                no \in {read_wasm_str(b, o).off},
                ns \in {Append(strs, read_wasm_str(b, o).s)},
                nt \in {t \cup StrTouched(b, o)}} : TRUE

ReadStrs(b, o, n) == ReadStrsFrom(b, o, n, <<>>, {})

(***************************************************************************)
(* The record.                                                             *)
(***************************************************************************)
CustomInfoRequestDefault ==
    [req_type |-> <<>>, domain |-> <<>>, resource |-> <<>>, endpoint |-> <<>>]

CustomInfoRespDefault ==
    [status |-> "Ok", code |-> None, exception |-> <<>>, result |-> <<>>]

CustomInfoTraceDefault ==
    [trace_id |-> None, span_id |-> None, parent_span_id |-> None]

CustomInfoDefault ==
    [proto |-> 0, proto_str |-> <<>>, msg_type |-> "Request", rrt |-> 0,
     req_len |-> None, resp_len |-> None, request_id |-> None,
     req |-> CustomInfoRequestDefault,
     resp |-> CustomInfoRespDefault,
     trace |-> CustomInfoTraceDefault,
     attributes |-> <<>>]

\* error messages of Error::WasmSerializeFail
ErrHeader == "buf len too short"
ErrRequestIdShort == "buf len too short when parse request id"
ErrRequestIdFlag == "has request_id must 0 or 1"
ErrRequest == "buf len too short when parse request"
ErrStatus == "recv unexpected status "
ErrCodeShort == "buf len too short when parse response code"
ErrCodeFlag == "recv unexpected has_code "
ErrResponse == "buf len too short when parse exception and result"
ErrTraceFlagShort == "buf len too short when parse has trace info"
ErrTrace == "buf len too short when parse trace info"
ErrTraceFlag == "has trace return unexpected value"
ErrKvFlagShort == "buf len too short when parse key val"
ErrKvFlag == "has kv return unexpected value"

Running == [kind |-> "Running"]
Ok(v) == [kind |-> "Ok", v |-> v]
Err(m) == [kind |-> "Err", msg |-> m]
\* the thread panicked on buf[i] with i >= buf.len()
Panic == [kind |-> "Panic"]

\* the value each presence flag held when it was read (-1: not read)
NoSeen == [has_request_id |-> -1, has_code |-> -1, has_trace |-> -1, has_kv |-> -1]

NoRec == [kind |-> "NoRec"]
NoLog == [kind |-> "NoLog"]
NoTap == [kind |-> "NoTap"]

(***************************************************************************)
(* Input buffers: every prefix of the encodings below, so that each field  *)
(* is met well-formed, truncated at each of its bytes, and with each       *)
(* invalid flag value.                                                     *)
(***************************************************************************)
EncStr(s) == <<Len(s) \div 256, Len(s) % 256>> \o s

\* the i-th attribute pair: key "k<i>", value "v"
EncPair(i) == EncStr(<<107, 48 + i>>) \o EncStr(<<118>>)

RECURSIVE EncPairs(_)
EncPairs(n) == IF n = 0 THEN <<>> ELSE EncPairs(n - 1) \o EncPair(n)

KvSecs ==
    {<<0>>, <<2>>, <<0, 0, 0>>}
    \cup {<<1>> \o EncPairs(n) : n \in 0 .. MaxPairs}
    \cup {<<1>> \o EncPairs(1) \o <<255, 255, 0>>}

TraceSecs ==
    {<<0>> \o k : k \in KvSecs}
    \cup {<<1>> \o EncStr(<<116>>) \o EncStr(<<>>) \o EncStr(<<112, 112>>) \o k :
             k \in KvSecs}
    \cup {<<2>>, <<255>>}

ReqBodies ==
    {EncStr(<<71>>) \o EncStr(<<47, 97>>) \o EncStr(<<>>) \o EncStr(<<114>>) \o t :
        t \in TraceSecs}
    \cup {<<0, 0, 0, 0, 0, 0, 0, 0, 0, 0>>}

CodeSecs == {<<0, 0>>, <<2, 1, 255, 255, 255, 255>>, <<3, 1, 0, 0, 1, 2>>}

RespBodies ==
    {c \o EncStr(<<111>>) \o EncStr(<<>>) \o t : c \in CodeSecs, t \in TraceSecs}
    \cup {<<1>>, <<0, 2>>, <<3, 255>>}

\* bit 31 clear with and without low bits, bit 31 set with some and all low bits
LenWords ==
    {<<0, 0, 0, 0>>, <<127, 255, 255, 255>>, <<128, 0, 1, 7>>, <<255, 255, 255, 255>>}

LenWordPairs == {a \o b : a \in LenWords, b \in LenWords}

IdSecs == {<<0>>, <<1, 255, 0, 0, 9>>}

FullBuffers ==
    {w \o i \o b : w \in LenWordPairs, i \in IdSecs, b \in ReqBodies \cup RespBodies}
    \cup {w \o <<f>> : w \in LenWordPairs, f \in {2, 128}}

Buffers == UNION {{SubSeq(b, 1, n) : n \in 0 .. Len(b)} : b \in FullBuffers}

Directions == {"ClientToServer", "ServerToClient"}

(***************************************************************************)
(* CustomInfo::try_from, one action per field of the layout.  pc is the    *)
(* field the decoder is about to parse, off its cursor, info the record it *)
(* is filling, ret what the call returned.  touched is the set of buffer   *)
(* positions the call has read so far; an index at or past the end of the  *)
(* slice panics.                                                           *)
(***************************************************************************)
InBounds(b, o, n) == o + n <= Len(b)

Return(r) == ret' = r /\ pc' = "done"

\* the precheck off by one: if buf.len() < 8
CheckLenOffByOne ==
    /\ pc = "start"
    /\ IF Len(buf) < 8
       THEN Return(Err(ErrHeader))
       ELSE pc' = "req_len" /\ UNCHANGED ret
    /\ UNCHANGED <<buf, dir, off, info, touched, seen, kvStart>>
    /\ UNCHANGED <<mergeVars, tapVars>>

\* if buf.len() < 9
CheckLen ==
    /\ pc = "start"
    /\ IF Len(buf) < 9
       THEN Return(Err(ErrHeader))
       ELSE pc' = "req_len" /\ UNCHANGED ret
    /\ UNCHANGED <<buf, dir, off, info, touched, seen, kvStart>>
    /\ UNCHANGED <<mergeVars, tapVars>>

\* the length word kept with its presence bit
ParseLenWordNoMask(b, o) ==
    IF b[o + 1] \div 128 # 0
    THEN Some(ReadU32Be(b, o))
    ELSE None

\* | 1 bit: is nil? | 31bit length |
ParseLenWord(b, o) ==
    IF b[o + 1] \div 128 # 0
    THEN Some(MaskI32Max(ReadU32Be(b, o)))
    ELSE None

LenWordTouched(b, o) == IF b[o + 1] \div 128 # 0 THEN o .. (o + 3) ELSE {o}

ParseReqLen ==
    /\ pc = "req_len"
    /\ IF ~InBounds(buf, off, 1) \/ (buf[off + 1] \div 128 # 0 /\ ~InBounds(buf, off, 4))
       THEN /\ Return(Panic)
            /\ touched' = touched \cup {Len(buf)}
            /\ UNCHANGED <<off, info>>
       ELSE /\ info' = [info EXCEPT !.req_len = ParseLenWord(buf, off)]
            /\ touched' = touched \cup LenWordTouched(buf, off)
            /\ off' = off + 4
            /\ pc' = "resp_len"
            /\ UNCHANGED ret
    /\ UNCHANGED <<buf, dir, seen, kvStart>>
    /\ UNCHANGED <<mergeVars, tapVars>>

ParseRespLen ==
    /\ pc = "resp_len"
    /\ IF ~InBounds(buf, off, 1) \/ (buf[off + 1] \div 128 # 0 /\ ~InBounds(buf, off, 4))
       THEN /\ Return(Panic)
            /\ touched' = touched \cup {Len(buf)}
            /\ UNCHANGED <<off, info>>
       ELSE /\ info' = [info EXCEPT !.resp_len = ParseLenWord(buf, off)]
            /\ touched' = touched \cup LenWordTouched(buf, off)
            /\ off' = off + 4
            /\ pc' = "request_id"
            /\ UNCHANGED ret
    /\ UNCHANGED <<buf, dir, seen, kvStart>>
    /\ UNCHANGED <<mergeVars, tapVars>>

\* parse request id
ParseRequestId ==
    /\ pc = "request_id"
    /\ IF ~InBounds(buf, off, 1)
       THEN /\ Return(Panic)
            /\ touched' = touched \cup {off}
            /\ UNCHANGED <<off, info, seen>>
       ELSE LET flag == buf[off + 1] IN
            /\ seen' = [seen EXCEPT !.has_request_id = flag]
            /\ CASE flag = 0 ->
                      /\ off' = off + 1
                      /\ pc' = "body"
                      /\ touched' = touched \cup {off}
                      /\ UNCHANGED <<info, ret>>
                 [] flag = 1 ->
                      /\ IF off + 1 + 4 > Len(buf)
                         THEN /\ Return(Err(ErrRequestIdShort))
                              /\ off' = off + 1
                              /\ touched' = touched \cup {off}
                              /\ UNCHANGED info
                         ELSE /\ info' = [info EXCEPT
                                    !.request_id = Some(ReadU32Be(buf, off + 1))]
                              /\ off' = off + 5
                              /\ touched' = touched \cup (off .. (off + 4))
                              /\ pc' = "body"
                              /\ UNCHANGED ret
                 [] OTHER ->
                      /\ Return(Err(ErrRequestIdFlag))
                      /\ touched' = touched \cup {off}
                      /\ UNCHANGED <<off, info>>
    /\ UNCHANGED <<buf, dir, kvStart>>
    /\ UNCHANGED <<mergeVars, tapVars>>

\* the request block after the first n strings of the chain were assigned
ReqAssigned(req, strs) ==
    [req_type |-> IF Len(strs) >= 1 THEN strs[1] ELSE req.req_type,
     endpoint |-> IF Len(strs) >= 2 THEN strs[2] ELSE req.endpoint,
     domain   |-> IF Len(strs) >= 3 THEN strs[3] ELSE req.domain,
     resource |-> IF Len(strs) >= 4 THEN strs[4] ELSE req.resource]

\* PacketDirection::ClientToServer: ReqType, Endpoint, Domain, Resource
ParseReq ==
    /\ pc = "body"
    /\ dir = "ClientToServer"
    /\ LET r == ReadStrs(buf, off, 4) IN
       /\ info' = [info EXCEPT !.req = ReqAssigned(info.req, r.strs)]
       /\ touched' = touched \cup r.touched
       /\ off' = r.off
       /\ IF r.ok
          THEN pc' = "has_trace" /\ UNCHANGED ret
          ELSE Return(Err(ErrRequest))
    /\ UNCHANGED <<buf, dir, seen, kvStart>>
    /\ UNCHANGED <<mergeVars, tapVars>>

\* PacketDirection::ServerToClient: let status = buf[off]
ParseStatus ==
    /\ pc = "body"
    /\ dir = "ServerToClient"
    /\ touched' = touched \cup {off}
    /\ IF ~InBounds(buf, off, 1)
       THEN Return(Panic) /\ UNCHANGED <<off, info>>
       ELSE LET status == buf[off + 1] IN
            CASE status = 0 ->
                   /\ info' = [info EXCEPT !.resp.status = "Ok"]
                   /\ off' = off + 1 /\ pc' = "has_code" /\ UNCHANGED ret
              [] status = 2 ->
                   /\ info' = [info EXCEPT !.resp.status = "ClientError"]
                   /\ off' = off + 1 /\ pc' = "has_code" /\ UNCHANGED ret
              [] status = 3 ->
                   /\ info' = [info EXCEPT !.resp.status = "ServerError"]
                   /\ off' = off + 1 /\ pc' = "has_code" /\ UNCHANGED ret
              [] OTHER ->
                   Return(Err(ErrStatus)) /\ UNCHANGED <<off, info>>
    /\ UNCHANGED <<buf, dir, seen, kvStart>>
    /\ UNCHANGED <<mergeVars, tapVars>>

\* let has_code = buf[off]
ParseHasCode ==
    /\ pc = "has_code"
    /\ touched' = touched \cup
          (IF InBounds(buf, off, 1) /\ buf[off + 1] = 1 /\ off + 1 + 4 <= Len(buf)
           THEN off .. (off + 4) ELSE {off})
    /\ IF ~InBounds(buf, off, 1)
       THEN Return(Panic) /\ UNCHANGED <<off, info, seen>>
       ELSE LET has_code == buf[off + 1] IN
            /\ seen' = [seen EXCEPT !.has_code = has_code]
            /\ CASE has_code = 0 ->
                      off' = off + 1 /\ pc' = "resp_strs" /\ UNCHANGED <<info, ret>>
                 [] has_code = 1 ->
                      IF off + 1 + 4 > Len(buf)
                      THEN /\ Return(Err(ErrCodeShort))
                           /\ off' = off + 1
                           /\ UNCHANGED info
                      ELSE /\ info' = [info EXCEPT
                                 !.resp.code = Some(AsI32(ReadU32Be(buf, off + 1)))]
                           /\ off' = off + 5
                           /\ pc' = "resp_strs"
                           /\ UNCHANGED ret
                 [] OTHER ->
                      Return(Err(ErrCodeFlag)) /\ UNCHANGED <<off, info>>
    /\ UNCHANGED <<buf, dir, kvStart>>
    /\ UNCHANGED <<mergeVars, tapVars>>

\* Result, Exception
ParseRespStrs ==
    /\ pc = "resp_strs"
    /\ LET r == ReadStrs(buf, off, 2) IN
       /\ info' = [info EXCEPT
              !.resp.result = IF Len(r.strs) >= 1 THEN r.strs[1] ELSE @,
              !.resp.exception = IF Len(r.strs) >= 2 THEN r.strs[2] ELSE @]
       /\ touched' = touched \cup r.touched
       /\ off' = r.off
       /\ IF r.ok
          THEN pc' = "has_trace" /\ UNCHANGED ret
          ELSE Return(Err(ErrResponse))
    /\ UNCHANGED <<buf, dir, seen, kvStart>>
    /\ UNCHANGED <<mergeVars, tapVars>>

\* trace info
ParseHasTrace ==
    /\ pc = "has_trace"
    /\ IF off + 1 > Len(buf)
       THEN Return(Err(ErrTraceFlagShort)) /\ UNCHANGED <<off, info, touched, seen>>
       ELSE LET has_trace == buf[off + 1]
                r == ReadStrs(buf, off + 1, 3)
            IN
            /\ seen' = [seen EXCEPT !.has_trace = has_trace]
            /\ CASE has_trace = 0 ->
                      /\ off' = off + 1
                      /\ touched' = touched \cup {off}
                      /\ pc' = "has_kv"
                      /\ UNCHANGED <<info, ret>>
                 [] has_trace = 1 ->
                      /\ info' = [info EXCEPT
                             !.trace.trace_id =
                                 IF Len(r.strs) >= 1 THEN Some(r.strs[1]) ELSE @,
                             !.trace.span_id =
                                 IF Len(r.strs) >= 2 THEN Some(r.strs[2]) ELSE @,
                             !.trace.parent_span_id =
                                 IF Len(r.strs) >= 3 THEN Some(r.strs[3]) ELSE @]
                      /\ off' = r.off
                      /\ touched' = touched \cup {off} \cup r.touched
                      /\ IF r.ok
                         THEN pc' = "has_kv" /\ UNCHANGED ret
                         ELSE Return(Err(ErrTrace))
                 [] OTHER ->
                      /\ Return(Err(ErrTraceFlag))
                      /\ off' = off + 1
                      /\ touched' = touched \cup {off}
                      /\ UNCHANGED info
    /\ UNCHANGED <<buf, dir, kvStart>>
    /\ UNCHANGED <<mergeVars, tapVars>>

\* any non-zero has-kv byte taken as "present"
ParseHasKvAnyNonZero ==
    /\ pc = "has_kv"
    /\ IF off + 1 > Len(buf)
       THEN Return(Err(ErrKvFlagShort)) /\ UNCHANGED <<off, touched, seen, kvStart>>
       ELSE LET has_kv == buf[off + 1] IN
            /\ seen' = [seen EXCEPT !.has_kv = has_kv]
            /\ off' = off + 1
            /\ touched' = touched \cup {off}
            /\ CASE has_kv = 0 -> Return(Ok(info)) /\ UNCHANGED kvStart
                 [] OTHER ->
                      pc' = "kv_loop" /\ kvStart' = off + 1 /\ UNCHANGED ret
    /\ UNCHANGED <<buf, dir, info>>
    /\ UNCHANGED <<mergeVars, tapVars>>

\* key val
ParseHasKv ==
    /\ pc = "has_kv"
    /\ IF off + 1 > Len(buf)
       THEN Return(Err(ErrKvFlagShort)) /\ UNCHANGED <<off, touched, seen, kvStart>>
       ELSE LET has_kv == buf[off + 1] IN
            /\ seen' = [seen EXCEPT !.has_kv = has_kv]
            /\ off' = off + 1
            /\ touched' = touched \cup {off}
            /\ CASE has_kv = 0 -> Return(Ok(info)) /\ UNCHANGED kvStart
                 [] has_kv = 1 ->
                      pc' = "kv_loop" /\ kvStart' = off + 1 /\ UNCHANGED ret
                 [] OTHER -> Return(Err(ErrKvFlag)) /\ UNCHANGED kvStart
    /\ UNCHANGED <<buf, dir, info>>
    /\ UNCHANGED <<mergeVars, tapVars>>

\* the loop failing the call when a pair is cut short
KvLoopStrict ==
    /\ pc = "kv_loop"
    /\ LET key == read_wasm_str(buf, off) IN
       \E o1 \in (IF key.ok THEN {key.off} ELSE FailOffs(buf, off)) :
          LET val == read_wasm_str(buf, o1) IN
          \E o2 \in (IF val.ok THEN {val.off} ELSE FailOffs(buf, o1)) :
             /\ off' = o2
             /\ touched' = touched \cup StrTouched(buf, off) \cup StrTouched(buf, o1)
             /\ IF key.ok /\ val.ok
                THEN /\ info' = [info EXCEPT !.attributes =
                            Append(@, [key |-> key.s, val |-> val.s])]
                     /\ UNCHANGED <<pc, ret>>
                ELSE /\ IF off < Len(buf)
                        THEN Return(Err(ErrKvFlagShort))
                        ELSE Return(Ok(info))
                     /\ UNCHANGED info
    /\ UNCHANGED <<buf, dir, seen, kvStart>>
    /\ UNCHANGED <<mergeVars, tapVars>>

\* the loop reading through a copy of the cursor: every iteration starts
\* where the first one did
KvLoopCursorCopy ==
    /\ pc = "kv_loop"
    /\ LET key == read_wasm_str(buf, off) IN
       \E o1 \in (IF key.ok THEN {key.off} ELSE FailOffs(buf, off)) :
          LET val == read_wasm_str(buf, o1) IN
             /\ off' = off
             /\ touched' = touched \cup StrTouched(buf, off) \cup StrTouched(buf, o1)
             /\ IF key.ok /\ val.ok
                THEN /\ info' = [info EXCEPT !.attributes =
                            Append(@, [key |-> key.s, val |-> val.s])]
                     /\ UNCHANGED <<pc, ret>>
                ELSE /\ Return(Ok(info))
                     /\ UNCHANGED info
    /\ UNCHANGED <<buf, dir, seen, kvStart>>
    /\ UNCHANGED <<mergeVars, tapVars>>

\* one iteration of the loop: both reads of the tuple are made, the second
\* from wherever the first left the cursor
KvLoop ==
    /\ pc = "kv_loop"
    /\ LET key == read_wasm_str(buf, off) IN
       \E o1 \in (IF key.ok THEN {key.off} ELSE FailOffs(buf, off)) :
          LET val == read_wasm_str(buf, o1) IN
          \E o2 \in (IF val.ok THEN {val.off} ELSE FailOffs(buf, o1)) :
             /\ off' = o2
             /\ touched' = touched \cup StrTouched(buf, off) \cup StrTouched(buf, o1)
             /\ IF key.ok /\ val.ok
                THEN /\ info' = [info EXCEPT !.attributes =
                            Append(@, [key |-> key.s, val |-> val.s])]
                     /\ UNCHANGED <<pc, ret>>
                ELSE /\ Return(Ok(info))
                     /\ UNCHANGED info
    /\ UNCHANGED <<buf, dir, seen, kvStart>>
    /\ UNCHANGED <<mergeVars, tapVars>>

(***************************************************************************)
(* The caller of try_from takes the record out of an Ok result; the call's *)
(* frame (buffer, cursor, locals) is gone from then on.                    *)
(***************************************************************************)
IdleDecode ==
    /\ buf = <<>>
    /\ dir = "ClientToServer"
    /\ off = 0
    /\ info = CustomInfoDefault
    /\ ret = Running
    /\ touched = {}
    /\ seen = NoSeen
    /\ kvStart = -1

TakeRecord ==
    /\ pc = "done"
    /\ ret.kind = "Ok"
    /\ base' = ret.v
    /\ pc' = "held"
    /\ buf' = <<>>
    /\ dir' = "ClientToServer"
    /\ off' = 0
    /\ info' = CustomInfoDefault
    /\ ret' = Running
    /\ touched' = {}
    /\ seen' = NoSeen
    /\ kvStart' = -1
    /\ UNCHANGED <<hist, mret, log>>
    /\ UNCHANGED tapVars

(***************************************************************************)
(* CustomInfo::merge_log.  other is an L7ProtocolInfo: the CustomInfo      *)
(* variant carrying a record, or another variant.                          *)
(***************************************************************************)
\* the incoming side winning whenever it has a value
MergeTraceFieldLastWins(mine, theirs) == IF IsSome(theirs) THEN theirs ELSE mine

MergeTraceField(mine, theirs) == IF IsNone(mine) THEN theirs ELSE mine

\* pairs already held are not appended again
MergeAttributesDedup(mine, theirs) ==
    mine \o SelectSeq(theirs, LAMBDA a : \A i \in 1 .. Len(mine) : mine[i] # a)

MergeAttributes(mine, theirs) == mine \o theirs

\* the correlation id taken from the incoming side as well
MergeCustomInfoWithId(self, w) ==
    [self EXCEPT
        !.resp = w.resp,
        !.request_id = w.request_id,
        !.trace.trace_id = MergeTraceField(@, w.trace.trace_id),
        !.trace.span_id = MergeTraceField(@, w.trace.span_id),
        !.trace.parent_span_id = MergeTraceField(@, w.trace.parent_span_id),
        !.attributes = MergeAttributes(@, w.attributes)]

MergeCustomInfo(self, w) ==
    [self EXCEPT
        !.resp = w.resp,
        !.trace.trace_id = MergeTraceField(@, w.trace.trace_id),
        !.trace.span_id = MergeTraceField(@, w.trace.span_id),
        !.trace.parent_span_id = MergeTraceField(@, w.trace.parent_span_id),
        !.attributes = MergeAttributes(@, w.attributes)]

merge_log(self, other) ==
    [self |-> IF other.kind = "CustomInfo" THEN MergeCustomInfo(self, other.v) ELSE self,
     ret |-> "Ok"]

\* records a counterpart may hold: every combination of present and absent
\* trace fields, each with values of its own (n tags them), and attributes
\* that repeat a key of the decoded side
IncomingAttrs(n) ==
    SubSeq(<<[key |-> <<107, 49>>, val |-> <<118>>], [key |-> <<97>>, val |-> <<>>]>>,
           1, n % 3)

MkIncoming(n, t, s, p) ==
    [proto |-> 1, proto_str |-> <<120>>, msg_type |-> "Response", rrt |-> 7,
     req_len |-> Some([hi |-> 0, lo |-> 3]),
     resp_len |-> Some([hi |-> 0, lo |-> 4]),
     request_id |-> Some([hi |-> 0, lo |-> 1]),
     req |-> [req_type |-> <<80>>, domain |-> <<81>>,
              resource |-> <<82>>, endpoint |-> <<83>>],
     resp |-> [status |-> "ServerError", code |-> Some(-1),
               exception |-> <<101>>, result |-> <<48 + n>>],
     trace |-> [trace_id |-> IF t THEN Some(<<84, 48 + n>>) ELSE None,
                span_id |-> IF s THEN Some(<<83, 48 + n>>) ELSE None,
                parent_span_id |-> IF p THEN Some(<<>>) ELSE None],
     attributes |-> IncomingAttrs(n)]

Bit(b) == IF b THEN 1 ELSE 0

Incomings ==
    {MkIncoming(4 * Bit(t) + 2 * Bit(s) + Bit(p), t, s, p) :
        t \in BOOLEAN, s \in BOOLEAN, p \in BOOLEAN}

Others ==
    {[kind |-> "CustomInfo", v |-> w] : w \in Incomings} \cup {[kind |-> "HttpInfo"]}

MergeLog ==
    /\ pc = "held"
    /\ Len(hist) < MaxMerges
    /\ \E other \in Others :
          /\ base' = merge_log(base, other).self
          /\ mret' = Some(merge_log(base, other).ret)
          /\ hist' = Append(hist, other)
    /\ UNCHANGED log
    /\ UNCHANGED <<decodeVars, tapVars>>

(***************************************************************************)
(* From<CustomInfo> for L7ProtocolSendLog.                                 *)
(***************************************************************************)
\* "custom_proto_str"
CustomProtoStr ==
    <<99, 117, 115, 116, 111, 109, 95, 112, 114, 111, 116, 111, 95, 115, 116, 114>>

\* the block emitted only when all three fields are present
TraceInfoOfAllPresent(trace) ==
    IF IsSome(trace.trace_id) /\ IsSome(trace.span_id) /\ IsSome(trace.parent_span_id)
    THEN Some([trace_id |-> trace.trace_id,
               span_id |-> trace.span_id,
               parent_span_id |-> trace.parent_span_id])
    ELSE None

TraceInfoOf(trace) ==
    IF IsSome(trace.trace_id) \/ IsSome(trace.span_id) \/ IsSome(trace.parent_span_id)
    THEN Some([trace_id |-> trace.trace_id,
               span_id |-> trace.span_id,
               parent_span_id |-> trace.parent_span_id])
    ELSE None

L7ProtocolSendLogFrom(w) ==
    [req_len |-> w.req_len,
     resp_len |-> w.resp_len,
     req |-> w.req,
     resp |-> w.resp,
     trace_info |-> TraceInfoOf(w.trace),
     ext_info |-> Some([request_id |-> w.request_id,
                        attributes |-> Some(Append(w.attributes,
                            [key |-> CustomProtoStr, val |-> w.proto_str]))])]

\* the record is consumed; base keeps the value that was converted
ToSendLog ==
    /\ pc = "held"
    /\ log' = L7ProtocolSendLogFrom(base)
    /\ pc' = "sent"
    /\ UNCHANGED <<buf, dir, off, info, ret, touched, seen, kvStart>>
    /\ UNCHANGED <<base, hist, mret>>
    /\ UNCHANGED tapVars

(***************************************************************************)
(* TapType and its conversions.                                            *)
(***************************************************************************)
U16 == 0 .. (2 ^ 16 - 1)
U8 == 0 .. (2 ^ 8 - 1)

Any == [tag |-> "Any", v |-> 0]
Tor == [tag |-> "Tor", v |-> 0]
Max == [tag |-> "Max", v |-> 0]
Isp(b) == [tag |-> "Isp", v |-> b]

TapTypes == {Any, Tor, Max} \cup {Isp(b) : b \in U8}

\* the Tor arm missing
TapTryFromNoTor(t) ==
    CASE t = 0 -> Ok(Any)
      [] t # 0 /\ t < 256 -> Ok(Isp(t % 256))
      [] OTHER -> Err("tap_type not in [0, 256)")

\* TryFrom<u16> for TapType
TapTryFrom(t) ==
    CASE t = 0 -> Ok(Any)
      [] t = 3 -> Ok(Tor)
      [] t # 0 /\ t # 3 /\ t < 256 -> Ok(Isp(t % 256))
      [] OTHER -> Err("tap_type not in [0, 256)")

\* From<TapType> for u16
TapToU16(t) ==
    CASE t.tag = "Any" -> 0
      [] t.tag = "Isp" -> t.v
      [] t.tag = "Tor" -> 3
      [] t.tag = "Max" -> 256

TapTryFromU16 ==
    /\ tapArg.kind = "u16"
    /\ tapRes = NoTap
    /\ tapRes' = [kind |-> "try_from", r |-> TapTryFrom(tapArg.v)]
    /\ UNCHANGED tapArg
    /\ UNCHANGED <<decodeVars, mergeVars>>

TapIntoU16 ==
    /\ tapArg.kind = "TapType"
    /\ tapRes = NoTap
    /\ tapRes' = [kind |-> "into", r |-> TapToU16(tapArg.v)]
    /\ UNCHANGED tapArg
    /\ UNCHANGED <<decodeVars, mergeVars>>

\* u16::from applied to what try_from returned
TapIntoAfterTryFrom ==
    /\ tapRes.kind = "try_from"
    /\ tapRes.r.kind = "Ok"
    /\ tapRes' = [kind |-> "try_from_into", r |-> TapToU16(tapRes.r.v)]
    /\ UNCHANGED tapArg
    /\ UNCHANGED <<decodeVars, mergeVars>>

\* TapType::try_from applied to what u16::from returned
TapTryFromAfterInto ==
    /\ tapRes.kind = "into"
    /\ tapRes' = [kind |-> "into_try_from", r |-> TapTryFrom(tapRes.r)]
    /\ UNCHANGED tapArg
    /\ UNCHANGED <<decodeVars, mergeVars>>

(***************************************************************************)
(* Specifications.                                                         *)
(***************************************************************************)
InitDecode ==
    /\ buf \in Buffers
    /\ dir \in Directions
    /\ pc = "start"
    /\ off = 0
    /\ info = CustomInfoDefault
    /\ ret = Running
    /\ touched = {}
    /\ seen = NoSeen
    /\ kvStart = -1

IdleMerge ==
    /\ base = NoRec
    /\ hist = <<>>
    /\ mret = None
    /\ log = NoLog

IdleTap ==
    /\ tapArg = NoTap
    /\ tapRes = NoTap

\* a packet's payload is decoded, the record merged and converted
Init == InitDecode /\ IdleMerge /\ IdleTap

Next ==
    \/ CheckLen
    \/ ParseReqLen
    \/ ParseRespLen
    \/ ParseRequestId
    \/ ParseReq
    \/ ParseStatus
    \/ ParseHasCode
    \/ ParseRespStrs
    \/ ParseHasTrace
    \/ ParseHasKv
    \/ KvLoop
    \/ TakeRecord
    \/ MergeLog
    \/ ToSendLog

Spec == Init /\ [][Next]_vars

\* the TapType conversions applied to every u16 and every TapType
InitTap ==
    /\ pc = "idle"
    /\ IdleDecode
    /\ IdleMerge
    /\ tapArg \in {[kind |-> "u16", v |-> v] : v \in U16}
                  \cup {[kind |-> "TapType", v |-> t] : t \in TapTypes}
    /\ tapRes = NoTap

NextTap ==
    \/ TapTryFromU16
    \/ TapIntoU16
    \/ TapIntoAfterTryFrom
    \/ TapTryFromAfterInto

SpecTap == InitTap /\ [][NextTap]_vars

(***************************************************************************)
(* Properties.                                                             *)
(***************************************************************************)
\* one call of try_from alone.  The call is sequential code that runs to its
\* return without waiting on anything: a step that is enabled is taken.
NextDecode ==
    \/ CheckLen
    \/ ParseReqLen
    \/ ParseRespLen
    \/ ParseRequestId
    \/ ParseReq
    \/ ParseStatus
    \/ ParseHasCode
    \/ ParseRespStrs
    \/ ParseHasTrace
    \/ ParseHasKv
    \/ KvLoop

SpecDecode == Init /\ [][NextDecode]_vars /\ WF_vars(NextDecode)

\* a call of try_from is in progress or has just returned
InCall == pc \notin {"held", "sent", "idle"}

\* C1: for every buffer and both directions try_from returns a record or an
\* error: it never panics, and every position it reads lies inside the buffer.
C1_NeverPanicsNorReadsOutOfBounds ==
    /\ pc = "done" => ret.kind \in {"Ok", "Err"}
    /\ \A i \in touched : i < Len(buf)

\* a (key, value) pair of length-prefixed strings lies whole in b at offset o
CompletePairAt(b, o) ==
    \E kl, vl \in 0 .. Len(b) :
        /\ o + 4 + kl + vl <= Len(b)
        /\ b[o + 1] * 256 + b[o + 2] = kl
        /\ b[o + 2 + kl + 1] * 256 + b[o + 2 + kl + 2] = vl

RECURSIVE EncAttrs(_)
EncAttrs(attrs) ==
    IF attrs = <<>> THEN <<>>
    ELSE EncStr(Head(attrs).key) \o EncStr(Head(attrs).val) \o EncAttrs(Tail(attrs))

\* C2: once the has-kv byte is 1 the call cannot fail: it returns Ok with the
\* attributes whose encodings, in order, are the bytes that follow the has-kv
\* byte up to the first position at which no complete pair lies.
C2_KvLoopLenientStop ==
    /\ pc = "kv_loop" => ret = Running
    /\ (pc = "done" /\ seen.has_kv = 1) =>
          /\ ret.kind = "Ok"
          /\ LET e == EncAttrs(ret.v.attributes) IN
             /\ kvStart + Len(e) <= Len(buf)
             /\ SubSeq(buf, kvStart + 1, kvStart + Len(e)) = e
             /\ ~CompletePairAt(buf, kvStart + Len(e))

\* one well-formed pair followed by one byte of a second key's length prefix
C2_Witness ==
    /\ pc = "done"
    /\ seen.has_kv = 1
    /\ ret.kind = "Ok"
    /\ Len(ret.v.attributes) = 1
    /\ Len(buf) = kvStart + Len(EncAttrs(ret.v.attributes)) + 1

FlagError ==
    [has_request_id |-> ErrRequestIdFlag, has_code |-> ErrCodeFlag,
     has_trace |-> ErrTraceFlag, has_kv |-> ErrKvFlag]

\* C4: a presence flag read with a value other than 0 or 1 ends the call with
\* that flag's invalid-value error, and no record is returned.
C4_InvalidFlagFails ==
    \A f \in DOMAIN seen :
        seen[f] \notin {-1, 0, 1} =>
            /\ pc = "done"
            /\ ret = Err(FlagError[f])
            /\ base = NoRec

\* the has-kv byte is invalid after the fields before it were filled in
C4_Witness ==
    /\ seen.has_kv \notin {-1, 0, 1}
    /\ seen.has_trace = 1
    /\ IsSome(info.trace.trace_id)
    /\ ret = Err(ErrKvFlag)

\* the length a 4-byte big-endian word at offset o announces
LenOfWord(b, o) ==
    IF b[o + 1] >= 128
    THEN Some((b[o + 1] - 128) * 16777216 + b[o + 2] * 65536 + b[o + 3] * 256 + b[o + 4])
    ELSE None

\* the number a stored length stands for
LenValue(opt) ==
    IF IsSome(opt) /\ opt[1].hi < 32768 THEN Some(opt[1].hi * 65536 + opt[1].lo)
    ELSE IF IsSome(opt) THEN Some(-1)
    ELSE None

C10_ShortBuffers ==
    /\ (InCall /\ pc # "start" /\ Len(buf) < 9) =>
          /\ pc = "done"
          /\ ret = Err(ErrHeader)
          /\ touched = {}
    /\ (pc = "done" /\ dir = "ClientToServer" /\ buf = <<0, 0, 0, 0, 0, 0, 0, 0, 0>>) =>
          ret = Err(ErrRequest)

C10_Witness ==
    /\ pc = "done"
    /\ dir = "ClientToServer"
    /\ buf = <<0, 0, 0, 0, 0, 0, 0, 0, 0>>
    /\ ret = Err(ErrRequest)

TraceFields == {"trace_id", "span_id", "parent_span_id"}

\* this step is a merge_log call
MergeStep == Len(hist') = Len(hist) + 1

\* the record the merge_log call of this step was given
Incoming == hist'[Len(hist')]

\* C3: merging a CustomInfo leaves each trace field of base that is present
\* as it was and gives each absent one the incoming value; no step changes a
\* trace field that is present.
C3_TraceFirstWriterWins ==
    [][/\ (MergeStep /\ Incoming.kind = "CustomInfo") =>
            \A f \in TraceFields :
                base'.trace[f] = IF IsSome(base.trace[f])
                                 THEN base.trace[f]
                                 ELSE Incoming.v.trace[f]
       /\ pc = "held" =>
            \A f \in TraceFields :
                IsSome(base.trace[f]) => base'.trace[f] = base.trace[f]]_vars

\* after two merges: span_id came from the first and was kept over the
\* second's, trace_id was absent until the second
C3_Witness ==
    /\ Len(hist) = 2
    /\ hist[1].kind = "CustomInfo"
    /\ hist[2].kind = "CustomInfo"
    /\ IsSome(hist[1].v.trace.span_id)
    /\ IsSome(hist[2].v.trace.span_id)
    /\ hist[2].v.trace.span_id # hist[1].v.trace.span_id
    /\ base.trace.span_id = hist[1].v.trace.span_id
    /\ IsNone(hist[1].v.trace.trace_id)
    /\ IsSome(base.trace.trace_id)
    /\ base.trace.trace_id = hist[2].v.trace.trace_id

\* C6: merging a CustomInfo appends its attributes, in order, to those of
\* base; merging the same record again appends them again; the attributes
\* base held stay a prefix.
C6_AttributesAppended ==
    [][/\ (MergeStep /\ Incoming.kind = "CustomInfo") =>
            base'.attributes = base.attributes \o Incoming.v.attributes
       /\ (MergeStep /\ Incoming.kind = "CustomInfo"
             /\ Len(hist) >= 1 /\ hist[Len(hist)] = Incoming) =>
            LET a == Incoming.v.attributes
                n == Len(base.attributes) - Len(a)
            IN /\ n >= 0
               /\ base'.attributes = SubSeq(base.attributes, 1, n) \o a \o a
       /\ pc = "held" =>
            /\ Len(base'.attributes) >= Len(base.attributes)
            /\ SubSeq(base'.attributes, 1, Len(base.attributes)) = base.attributes]_vars

\* the same record merged twice into a base that had attributes of its own,
\* one of them equal to an incoming one
C6_Witness ==
    /\ Len(hist) = 2
    /\ hist[1] = hist[2]
    /\ hist[1].kind = "CustomInfo"
    /\ LET a == hist[1].v.attributes
           n == Len(base.attributes) - 2 * Len(a)
       IN /\ Len(a) = 2
          /\ n >= 1
          /\ SubSeq(base.attributes, n + 1, Len(base.attributes)) = a \o a
          /\ \E i \in 1 .. n : base.attributes[i] = a[1]

FrameFields ==
    {"req", "req_len", "resp_len", "request_id", "msg_type", "proto", "proto_str", "rrt"}

\* C7: merge_log returns Ok and leaves the request block, both lengths, the
\* correlation id, the message kind, the protocol tag and name and the round
\* trip time of base as they were; given another kind of record it leaves all
\* of base as it was.
C7_MergeFrame ==
    [][MergeStep =>
         /\ mret' = Some("Ok")
         /\ \A f \in FrameFields : base'[f] = base[f]
         /\ DOMAIN base' = DOMAIN base
         /\ Incoming.kind # "CustomInfo" => base' = base]_vars

\* a record decoded from a request merged with a counterpart that differs in
\* every field of the frame
C7_Witness ==
    /\ Len(hist) >= 1
    /\ hist[Len(hist)].kind = "CustomInfo"
    /\ base.req.req_type # <<>>
    /\ IsSome(base.req_len)
    /\ \A f \in FrameFields \ {"proto", "proto_str", "msg_type", "rrt"} :
           base[f] # hist[Len(hist)].v[f]
    /\ base.resp = hist[Len(hist)].v.resp

\* C8: the send log carries a trace block exactly when one of the three trace
\* fields of the converted record is present, and the block holds the three
\* fields as they were.
C8_TraceBlock ==
    pc = "sent" =>
        /\ IsSome(log.trace_info) <=> \E f \in TraceFields : IsSome(base.trace[f])
        /\ IsSome(log.trace_info) =>
              \A f \in TraceFields : log.trace_info[1][f] = base.trace[f]

\* a merged record with span_id alone
C8_Witness ==
    /\ pc = "sent"
    /\ Len(hist) >= 1
    /\ IsSome(log.trace_info)
    /\ IsNone(base.trace.trace_id)
    /\ IsSome(base.trace.span_id)
    /\ IsNone(base.trace.parent_span_id)

\* what try_from and u16::from do on the values both claims cover
TapSingleConversions ==
    /\ tapRes.kind = "try_from" =>
          /\ tapArg.v < 256 => tapRes.r.kind = "Ok"
          /\ tapArg.v >= 256 => tapRes.r.kind = "Err"
          /\ tapArg.v \in 4 .. 255 => tapRes.r = Ok(Isp(tapArg.v))
          /\ tapRes.r # Ok(Max)
    /\ tapRes.kind = "try_from_into" => tapRes.r = tapArg.v

\* C9 as claimed: try_from(u16::from(t)) = Ok(t) for every t but Max,
\* Isp(b) for every byte b included.
C9_RoundTripEveryIsp ==
    /\ TapSingleConversions
    /\ (tapRes.kind = "into_try_from" /\ tapArg.v # Max) => tapRes.r = Ok(tapArg.v)

\* C9: try_from(u16::from(t)) = Ok(t) for Any, Tor and Isp(b) with b other
\* than 0 and 3; u16::from(try_from(v)) = v for every v < 256; 4..255 map to
\* Isp of the byte, 256 and above are rejected, Max is never returned.
C9_RoundTrip ==
    /\ TapSingleConversions
    /\ (tapRes.kind = "into_try_from" /\ tapArg.v \notin {Max, Isp(0), Isp(3)}) =>
          tapRes.r = Ok(tapArg.v)

C9_Witness ==
    /\ tapRes.kind = "into_try_from"
    /\ tapArg.v = Isp(200)
    /\ tapRes.r = Ok(Isp(200))

\* C11: try_from returns on every buffer: the cursor never moves backwards,
\* an iteration of the attribute loop that appends a pair moves it forward
\* (by the 4 bytes of two length prefixes at least), so the pairs appended
\* number at most len(buf) / 4, and the call reaches its return.
C11_DecodeTerminates ==
    /\ [][/\ off' >= off
          /\ Len(info'.attributes) > Len(info.attributes) =>
                /\ pc = "kv_loop"
                /\ Len(info'.attributes) = Len(info.attributes) + 1
                /\ off' >= off + 4]_vars
    /\ [](/\ off <= Len(buf)
          /\ 4 * Len(info.attributes) <= Len(buf))
    /\ <>(pc = "done")

\* the loop has appended pairs and stopped on a buffer that ends exactly at
\* the end of the last pair
C11_Witness ==
    /\ pc = "done"
    /\ seen.has_kv = 1
    /\ ret.kind = "Ok"
    /\ Len(ret.v.attributes) = MaxPairs
    /\ off = Len(buf)
    /\ kvStart + Len(EncAttrs(ret.v.attributes)) = Len(buf)

====
